---- MODULE Spec2Model ----
(***************************************************************************)
(* A model of the NFL draft analytics pipeline: the fetch and cache loop   *)
(* of scraper.py, the name normalizer, the position map and the cleaning   *)
(* paths of cleaner.py, the merge, cohort filter and known-answer check    *)
(* of merger.py, and the hit-rate aggregations of analyzer.py.             *)
(*                                                                         *)
(* Strings that the code inspects character by character (player names,    *)
(* position labels, numeric fields) are sequences of one-character         *)
(* strings.  A missing string (pandas NaN / None) is the value NA.  A       *)
(* rate is an exact fraction <<numerator, denominator>>.                   *)
(***************************************************************************)
EXTENDS Integers, Sequences, FiniteSets, TLC

VARIABLES
    pc,             \* the operation that produced the current outputs
    name,           \* normalize_name: the raw input string
    normalized,     \* normalize_name(name)
    renormalized,   \* normalize_name(normalize_name(name))
    raw_position,   \* the raw position label of a draft row
    position,       \* the label after the position step of the cleaner
    position2,      \* the label after applying the position step again
    draft_df,       \* merge_datasets: the cleaned draft table
    allpro_df,      \* merge_datasets: the cleaned All-Pro table
    merged,         \* merge_datasets: the returned table
    df,             \* analyzer: the labeled table, a bag of rows
    min_players,    \* compute_hit_rates_by_position: the caller's threshold
    result,         \* analyzer: the returned table
    raw_rows,       \* cleaner: the concatenated raw rows
    cleaned,        \* cleaner: the returned table
    n_files,        \* cleaner: the number of source files found
    year_min,       \* cohort filter: the first year the caller asks for
    year_max,       \* cohort filter: the last year the caller asks for
    cohort,         \* filter_analysis_cohort: the returned table
    report,         \* validate_known_allpros: the status printed per pair
    years,          \* scrape_all_years: the list of years
    cache,          \* scraper: how often each raw file has been written
    year_idx,       \* scrape_all_years: the position of the loop in years
    page,           \* scrape_all_years: the page of the year being handled
    retries,        \* _get: the retries the current call has left
    requests,       \* _get: the requests issued for the current page
    status,         \* _get: the status code of the last response
    log             \* scraper: the requests, sleeps and writes so far

vars == <<pc, name, normalized, renormalized, raw_position, position,
          position2, draft_df, allpro_df, merged, df, min_players, result,
          raw_rows, cleaned, n_files, year_min, year_max, cohort, report,
          years, cache, year_idx, page, retries, requests, status, log>>

normVars == <<name, normalized, renormalized>>
posVars == <<raw_position, position, position2>>
mergeVars == <<draft_df, allpro_df, merged>>
aggVars == <<df, min_players, result>>
cleanVars == <<raw_rows, cleaned, n_files>>
cohortVars == <<year_min, year_max, cohort>>
knownVars == <<report>>
scrapeVars == <<years, cache, year_idx, page, retries, requests, status, log>>

\* The missing value of a string column (NaN, None): a one-element sequence
\* whose element is no character, so that it differs from every string.
NA == <<"NaN">>

(***************************************************************************)
(* Bounds                                                                  *)
(***************************************************************************)
MaxNameLen == 4
MaxPosLen == 3
MaxDraftRows == 2
MaxAllproRows == 2
MaxCohortRows == 3
MaxKnownRows == 3
MaxRows == 4
MaxPivotRows == 11
MaxValueRows == 16
MaxPicks == 11
MaxRoundRows == 5
MaxRawRows == 2
MaxYears == 2
MaxRawFiles == 1
MaxRawAllproRows == 3

(***************************************************************************)
(* Generic helpers                                                         *)
(***************************************************************************)
\* All sequences over S of length at most n.
SeqsUpTo(S, n) == UNION {[1..k -> S] : k \in 0..n}

(***************************************************************************)
(* cleaner.py: normalize_name                                              *)
(***************************************************************************)
\* The characters names are drawn from: letters of the suffix tokens, an
\* upper-case letter, punctuation, whitespace and the underscore.
NameAlphabet == {"J", "j", "r", "i", ".", " ", "_"}

IsSpace(c) == c \in {" ", "\t"}

\* \w of the regular expressions: letters, digits and the underscore.
IsWordChar(c) ==
    c \in {"J", "j", "r", "s", "i", "v", "h", "o", "f", "a", "b", "_",
           "0", "1", "2"}

\* str.lower()
LowerChar(c) == IF c = "J" THEN "j" ELSE c

Lower(s) == [k \in 1..Len(s) |-> LowerChar(s[k])]

\* str.strip(): drop leading and trailing whitespace.
RECURSIVE LStrip(_)
LStrip(s) ==
    IF s # <<>> /\ IsSpace(Head(s)) THEN LStrip(Tail(s)) ELSE s

RECURSIVE RStrip(_)
RStrip(s) ==
    IF s # <<>> /\ IsSpace(s[Len(s)])
    THEN RStrip(SubSeq(s, 1, Len(s) - 1))
    ELSE s

Strip(s) == RStrip(LStrip(s))

\* The alternatives of _SUFFIX_RE, in the order the pattern lists them.
SUFFIXES ==
    << <<"j", "r">>, <<"s", "r">>, <<"i", "i">>, <<"i", "i", "i">>,
       <<"i", "v">>, <<"h", "o", "f">> >>

\* \b at offset k of s (between s[k] and s[k+1]): exactly one side is a
\* word character; outside the string counts as a non-word character.
WordBoundary(s, k) ==
    LET before == k >= 1 /\ k <= Len(s) /\ IsWordChar(s[k])
        after == k + 1 >= 1 /\ k + 1 <= Len(s) /\ IsWordChar(s[k + 1])
    IN before # after

\* Alternative t matches at position k of s (1-based), between two \b.
SuffixMatchesAt(s, k, t) ==
    /\ k + Len(t) - 1 <= Len(s)
    /\ SubSeq(s, k, k + Len(t) - 1) = t
    /\ WordBoundary(s, k - 1)
    /\ WordBoundary(s, k + Len(t) - 1)

\* The length matched by _SUFFIX_RE at position k: the first alternative
\* that matches, 0 when none does.
SuffixMatchLen(s, k) ==
    LET hits == {a \in 1..Len(SUFFIXES) : SuffixMatchesAt(s, k, SUFFIXES[a])}
    IN IF hits = {} THEN 0
       ELSE Len(SUFFIXES[CHOOSE a \in hits : \A b \in hits : a <= b])

\* _SUFFIX_RE.sub("", s): scan left to right, dropping each match.
RECURSIVE SuffixSubFrom(_, _)
SuffixSubFrom(s, k) ==
    IF k > Len(s) THEN <<>>
    ELSE LET m == SuffixMatchLen(s, k)
         IN IF m > 0 THEN SuffixSubFrom(s, k + m)
            ELSE <<s[k]>> \o SuffixSubFrom(s, k + 1)

SuffixSub(s) == SuffixSubFrom(s, 1)

\* _PUNCT_RE.sub("", s): drop every character that is neither \w nor \s.
PunctSub(s) == SelectSeq(s, LAMBDA c : IsWordChar(c) \/ IsSpace(c))

\* _WHITESPACE_RE.sub(" ", s): every maximal whitespace run becomes " ".
RECURSIVE WhitespaceSub(_)
WhitespaceSub(s) ==
    IF s = <<>> THEN <<>>
    ELSE IF IsSpace(Head(s))
         THEN <<" ">> \o WhitespaceSub(LStrip(s))
         ELSE <<Head(s)>> \o WhitespaceSub(Tail(s))

normalize_name(s) ==
    Strip(WhitespaceSub(PunctSub(SuffixSub(Strip(Lower(s))))))

\* The values of the variables a specification does not use.
NormIdle == name = <<>> /\ normalized = NA /\ renormalized = NA
PosIdle == raw_position = NA /\ position = NA /\ position2 = NA
MergeIdle == draft_df = <<>> /\ allpro_df = <<>> /\ merged = <<>>
AggIdle == df = <<>> /\ min_players = 0 /\ result = <<>>
CleanIdle == raw_rows = <<>> /\ cleaned = <<>> /\ n_files = 0
CohortIdle == year_min = 0 /\ year_max = 0 /\ cohort = <<>>
KnownIdle == report = <<>>
ScrapeIdle ==
    /\ years = <<>> /\ cache = <<>> /\ year_idx = 0 /\ page = "none"
    /\ retries = 0 /\ requests = 0 /\ status = 0 /\ log = <<>>

\* --- the normalizer applied to a drawn input ---
NormInit ==
    /\ pc = "input"
    /\ name \in SeqsUpTo(NameAlphabet, MaxNameLen)
    /\ normalized = NA
    /\ renormalized = NA
    /\ PosIdle /\ MergeIdle /\ AggIdle /\ CleanIdle
    /\ CohortIdle /\ KnownIdle /\ ScrapeIdle

Normalize ==
    /\ pc = "input"
    /\ normalized' = normalize_name(name)
    /\ pc' = "normalized"
    /\ UNCHANGED <<cohortVars, knownVars, scrapeVars,
                   name, renormalized, posVars, mergeVars, aggVars, cleanVars>>

NormalizeAgain ==
    /\ pc = "normalized"
    /\ renormalized' = normalize_name(normalized)
    /\ pc' = "renormalized"
    /\ UNCHANGED <<cohortVars, knownVars, scrapeVars,
                   name, normalized, posVars, mergeVars, aggVars, cleanVars>>

NormNext == Normalize \/ NormalizeAgain

SpecNorm == NormInit /\ [][NormNext]_vars

\* C1: normalize_name is idempotent: normalizing an already normalized
\* name returns it unchanged, for every input string.
C1_Idempotent == pc = "renormalized" => renormalized = normalized

\* An alphanumeric character: a word character other than the underscore.
IsAlnum(c) == IsWordChar(c) /\ c # "_"

\* C17: for every input string the result of normalize_name is lowercase,
\* holds only alphanumeric characters and single spaces (the underscore is
\* removed like any other punctuation), and has no leading, trailing or
\* consecutive whitespace.
C17_NormalizedForm ==
    pc = "normalized" =>
        /\ \A k \in 1..Len(normalized) :
              /\ LowerChar(normalized[k]) = normalized[k]
              /\ IsAlnum(normalized[k]) \/ normalized[k] = " "
        /\ normalized # <<>> =>
              ~IsSpace(normalized[1]) /\ ~IsSpace(normalized[Len(normalized)])
        /\ \A k \in 1..(Len(normalized) - 1) :
              ~(IsSpace(normalized[k]) /\ IsSpace(normalized[k + 1]))

\* The same without the demand on the underscore.
NormalizedFormKeepingUnderscore ==
    pc = "normalized" =>
        /\ \A k \in 1..Len(normalized) :
              /\ LowerChar(normalized[k]) = normalized[k]
              /\ IsWordChar(normalized[k]) \/ normalized[k] = " "
        /\ normalized # <<>> =>
              ~IsSpace(normalized[1]) /\ ~IsSpace(normalized[Len(normalized)])
        /\ \A k \in 1..(Len(normalized) - 1) :
              ~(IsSpace(normalized[k]) /\ IsSpace(normalized[k + 1]))

(***************************************************************************)
(* cleaner.py: POSITION_MAP and the position step of the cleaners          *)
(***************************************************************************)
PositionAlphabet ==
    {"O", "L", "B", "I", "M", "F", "S", "T", "R", "G", "N", " "}

Lbl_LB == <<"L", "B">>
Lbl_RB == <<"R", "B">>
Lbl_S == <<"S">>
Lbl_OT == <<"O", "T">>
Lbl_OG == <<"O", "G">>
Lbl_DT == <<"D", "T">>

\* A plausible slip in the table: a fold onto a label that is itself folded.
POSITION_MAP_chained ==
    <<"O", "L", "B">> :> Lbl_LB @@ <<"I", "L", "B">> :> Lbl_LB @@
    <<"M", "L", "B">> :> <<"I", "L", "B">> @@
    <<"F", "B">> :> Lbl_RB @@
    <<"F", "S">> :> Lbl_S @@ <<"S", "S">> :> Lbl_S @@
    <<"L", "T">> :> Lbl_OT @@ <<"R", "T">> :> Lbl_OT @@
    <<"L", "G">> :> Lbl_OG @@ <<"R", "G">> :> Lbl_OG @@
    <<"N", "T">> :> Lbl_DT

POSITION_MAP ==
    <<"O", "L", "B">> :> Lbl_LB @@ <<"I", "L", "B">> :> Lbl_LB @@
    <<"M", "L", "B">> :> Lbl_LB @@
    <<"F", "B">> :> Lbl_RB @@
    <<"F", "S">> :> Lbl_S @@ <<"S", "S">> :> Lbl_S @@
    <<"L", "T">> :> Lbl_OT @@ <<"R", "T">> :> Lbl_OT @@
    <<"L", "G">> :> Lbl_OG @@ <<"R", "G">> :> Lbl_OG @@
    <<"N", "T">> :> Lbl_DT

\* lambda p: POSITION_MAP.get(p, p)
PositionLookup(p) ==
    IF p \in DOMAIN POSITION_MAP THEN POSITION_MAP[p] ELSE p

\* df["position"].str.strip().map(lambda p: POSITION_MAP.get(p, p)); a
\* missing label stays missing through .str.strip() and through the lookup.
CanonicalPosition(p) ==
    IF p = NA THEN NA ELSE PositionLookup(Strip(p))

PosInit ==
    /\ pc = "input"
    /\ raw_position \in SeqsUpTo(PositionAlphabet, MaxPosLen) \cup {NA}
    /\ position = NA
    /\ position2 = NA
    /\ NormIdle /\ MergeIdle /\ AggIdle /\ CleanIdle
    /\ CohortIdle /\ KnownIdle /\ ScrapeIdle

Canonicalize ==
    /\ pc = "input"
    /\ position' = CanonicalPosition(raw_position)
    /\ pc' = "canonical"
    /\ UNCHANGED <<cohortVars, knownVars, scrapeVars,
                   raw_position, position2, normVars, mergeVars, aggVars,
                   cleanVars>>

CanonicalizeAgain ==
    /\ pc = "canonical"
    /\ position2' = CanonicalPosition(position)
    /\ pc' = "recanonical"
    /\ UNCHANGED <<cohortVars, knownVars, scrapeVars,
                   raw_position, position, normVars, mergeVars, aggVars,
                   cleanVars>>

PosNext == Canonicalize \/ CanonicalizeAgain

SpecPos == PosInit /\ [][PosNext]_vars

\* The fold the position table is documented to perform on a label.
Folded(p) ==
    CASE p \in {<<"O", "L", "B">>, <<"I", "L", "B">>, <<"M", "L", "B">>}
           -> <<"L", "B">>
      [] p = <<"F", "B">> -> <<"R", "B">>
      [] p \in {<<"F", "S">>, <<"S", "S">>} -> <<"S">>
      [] p \in {<<"L", "T">>, <<"R", "T">>} -> <<"O", "T">>
      [] p \in {<<"L", "G">>, <<"R", "G">>} -> <<"O", "G">>
      [] p = <<"N", "T">> -> <<"D", "T">>
      [] OTHER -> p

\* C9: position canonicalization is total and idempotent: every raw label
\* (a missing one included) has an output, the mapped labels fold as
\* OLB/ILB/MLB->LB, FB->RB, FS/SS->S, LT/RT->OT, LG/RG->OG, NT->DT, every
\* other label passes through as it is after the surrounding whitespace is
\* stripped, and a second application changes nothing.
C9_PositionIdempotent ==
    /\ pc \in {"canonical", "recanonical"} =>
         position = IF raw_position = NA THEN NA
                    ELSE Folded(Strip(raw_position))
    /\ pc = "recanonical" => position2 = position

\* A mapped label was folded and canonicalized a second time.
C9_Witness ==
    /\ pc = "recanonical"
    /\ raw_position = <<"M", "L", "B">>
    /\ position = <<"L", "B">>

(***************************************************************************)
(* merger.py: merge_datasets                                               *)
(***************************************************************************)
\* The normalized names and the years the two tables are drawn from.  A
\* normalized name read back from a CSV file can be missing.
MergeNames == {<<"a">>, <<"b">>, NA}
MergeYears == {2014, 2015}

DraftRows == [player_name_norm : MergeNames, year : MergeYears]
AllproRows == [player_name_norm : MergeNames, year : MergeYears]

\* A plausible slip: a temporal join, matching the All-Pro year as well.
merge_datasets_by_year(draft, allpro) ==
    [i \in 1..Len(draft) |->
        [player_name_norm |-> draft[i].player_name_norm,
         year |-> draft[i].year,
         is_allpro |->
            IF \E j \in 1..Len(allpro) :
                  /\ allpro[j].player_name_norm # NA
                  /\ allpro[j].player_name_norm = draft[i].player_name_norm
                  /\ allpro[j].year = draft[i].year
            THEN 1 ELSE 0]]

merge_datasets(draft, allpro) ==
    LET \* set(allpro_df["player_name_norm"].dropna().unique())
        allpro_names ==
            {allpro[j].player_name_norm : j \in 1..Len(allpro)} \ {NA}
    IN  \* draft_df["player_name_norm"].isin(allpro_names).astype(int)
        [i \in 1..Len(draft) |->
            [player_name_norm |-> draft[i].player_name_norm,
             year |-> draft[i].year,
             is_allpro |->
                IF draft[i].player_name_norm \in allpro_names
                THEN 1 ELSE 0]]

MergeInit ==
    /\ pc = "input"
    /\ draft_df \in SeqsUpTo(DraftRows, MaxDraftRows)
    /\ allpro_df \in SeqsUpTo(AllproRows, MaxAllproRows)
    /\ merged = <<>>
    /\ NormIdle /\ PosIdle /\ AggIdle /\ CleanIdle
    /\ CohortIdle /\ KnownIdle /\ ScrapeIdle

Merge ==
    /\ pc = "input"
    /\ merged' = merge_datasets(draft_df, allpro_df)
    /\ pc' = "merged"
    /\ UNCHANGED <<cohortVars, knownVars, scrapeVars,
                   draft_df, allpro_df, normVars, posVars, aggVars,
                   cleanVars>>

MergeNext == Merge

SpecMerge == MergeInit /\ [][MergeNext]_vars

\* C2: merge_datasets is a year-agnostic existence join: the returned table
\* has the draft records in order, and a record's is_allpro is 1 exactly
\* when some All-Pro record of any year carries its normalized name, and 0
\* otherwise.
C2_ExistenceJoin ==
    pc = "merged" =>
        /\ Len(merged) = Len(draft_df)
        /\ \A i \in 1..Len(merged) :
              /\ merged[i].player_name_norm = draft_df[i].player_name_norm
              /\ merged[i].year = draft_df[i].year
              /\ merged[i].is_allpro \in {0, 1}
              /\ merged[i].is_allpro = 1 <=>
                    /\ merged[i].player_name_norm # NA
                    /\ \E j \in 1..Len(allpro_df) :
                          allpro_df[j].player_name_norm =
                              merged[i].player_name_norm

\* A draft record is flagged although its only All-Pro match is of another
\* year, next to a record that matches nothing.
C2_Witness ==
    /\ pc = "merged"
    /\ Len(merged) = 2
    /\ merged[1].is_allpro = 1
    /\ merged[2].is_allpro = 0
    /\ \A j \in 1..Len(allpro_df) :
          allpro_df[j].player_name_norm = merged[1].player_name_norm
              => allpro_df[j].year # merged[1].year

(***************************************************************************)
(* merger.py: filter_analysis_cohort                                       *)
(***************************************************************************)
CohortYears == {2009, 2010, 2015, 2021, 2022}

CohortRows ==
    [player_name_norm : {<<"a">>}, year : CohortYears, is_allpro : {0, 1}]

\* The first and the last draft class of the cohort.
COHORT_FIRST == 2010
COHORT_LAST == 2021

\* (df["year"] >= 2010) & (df["year"] <= 2021)
InCohort_exclusive(year) == year > COHORT_FIRST /\ year < COHORT_LAST

InCohort(year) == year >= COHORT_FIRST /\ year <= COHORT_LAST

\* The function takes the table only; the rows it keeps stay in order.
filter_analysis_cohort(table) ==
    SelectSeq(table, LAMBDA r : InCohort(r.year))

\* merged is the table handed to the filter; year_min and year_max are
\* the range the caller has in mind.
CohortInit ==
    /\ pc = "input"
    /\ merged \in SeqsUpTo(CohortRows, MaxCohortRows)
    /\ year_min \in CohortYears
    /\ year_max \in CohortYears
    /\ cohort = <<>>
    /\ draft_df = <<>> /\ allpro_df = <<>>
    /\ NormIdle /\ PosIdle /\ AggIdle /\ CleanIdle
    /\ KnownIdle /\ ScrapeIdle

FilterCohort ==
    /\ pc = "input"
    /\ cohort' = filter_analysis_cohort(merged)
    /\ pc' = "filtered"
    /\ UNCHANGED <<year_min, year_max, knownVars, scrapeVars, normVars,
                   posVars, mergeVars, aggVars, cleanVars>>

CohortNext == FilterCohort

SpecCohort == CohortInit /\ [][CohortNext]_vars

\* C13: the cohort filter returns exactly the records with
\* year_min <= year <= year_max for the year_min and year_max the caller
\* supplies, in input order, and leaves its input unchanged.
C13_CohortFilter ==
    [][pc' = "filtered" =>
          /\ cohort' = SelectSeq(merged, LAMBDA r : /\ year_min <= r.year
                                                    /\ r.year <= year_max)
          /\ merged' = merged]_vars

\* C13 amended: the range is fixed: the filter returns exactly the records
\* with 2010 <= year <= 2021, both bounds inclusive, in input order, and
\* leaves its input unchanged, whatever range the caller has in mind.
C13_CohortFilterAmended ==
    [][pc' = "filtered" =>
          /\ cohort' = SelectSeq(merged, LAMBDA r : /\ 2010 <= r.year
                                                    /\ r.year <= 2021)
          /\ merged' = merged]_vars

\* Both end years are kept, their neighbours are dropped, and the caller
\* had a narrower range in mind.
C13_Witness ==
    /\ pc = "filtered"
    /\ Len(merged) = 3 /\ Len(cohort) = 2
    /\ merged[1].year = 2021 /\ merged[2].year = 2009
    /\ merged[3].year = 2010
    /\ cohort[1].year = 2021 /\ cohort[2].year = 2010
    /\ year_min = 2015 /\ year_max = 2015

(***************************************************************************)
(* merger.py: validate_known_allpros                                       *)
(*                                                                         *)
(* The validation compares names as wholes, so a name is written here as   *)
(* a single token.                                                         *)
(***************************************************************************)
KNOWN_ALLPROS ==
   {<< <<"aaron donald">>, 2014 >>, << <<"patrick mahomes">>, 2017 >>,
     << <<"davante adams">>, 2014 >>, << <<"travis kelce">>, 2013 >>,
     << <<"tyreek hill">>, 2016 >>, << <<"lamar jackson">>, 2018 >>,
     << <<"joey bosa">>, 2016 >>, << <<"myles garrett">>, 2017 >>,
     << <<"nick bosa">>, 2019 >>, << <<"micah parsons">>, 2021 >>,
     << <<"justin jefferson">>, 2020 >>, << <<"jamarr chase">>, 2021 >>,
     << <<"trent williams">>, 2010 >>, << <<"bobby wagner">>, 2012 >>,
     << <<"richard sherman">>, 2011 >>, << <<"earl thomas">>, 2010 >>,
     << <<"calvin johnson">>, 2007 >>, << <<"cam newton">>, 2011 >>,
     << <<"luke kuechly">>, 2012 >>, << <<"drew brees">>, 2001 >>}

\* sorted(KNOWN_ALLPROS): by name, then by year.
sorted_KNOWN_ALLPROS ==
   << << <<"aaron donald">>, 2014 >>, << <<"bobby wagner">>, 2012 >>,
     << <<"calvin johnson">>, 2007 >>, << <<"cam newton">>, 2011 >>,
     << <<"davante adams">>, 2014 >>, << <<"drew brees">>, 2001 >>,
     << <<"earl thomas">>, 2010 >>, << <<"jamarr chase">>, 2021 >>,
     << <<"joey bosa">>, 2016 >>, << <<"justin jefferson">>, 2020 >>,
     << <<"lamar jackson">>, 2018 >>, << <<"luke kuechly">>, 2012 >>,
     << <<"micah parsons">>, 2021 >>, << <<"myles garrett">>, 2017 >>,
     << <<"nick bosa">>, 2019 >>, << <<"patrick mahomes">>, 2017 >>,
     << <<"richard sherman">>, 2011 >>, << <<"travis kelce">>, 2013 >>,
     << <<"trent williams">>, 2010 >>, << <<"tyreek hill">>, 2016 >> >>

KnownNames == {<<"aaron donald">>, <<"travis kelce">>, NA}
KnownYears == {2013, 2014}

KnownRows ==
    [player_name_norm : KnownNames, year : KnownYears, is_allpro : {0, 1}]

\* (df["player_name_norm"] == name_norm) & (df["year"] == draft_year)
Matches_name_only(r, name_norm, draft_year) ==
    r.player_name_norm = name_norm

Matches(r, name_norm, draft_year) ==
    r.player_name_norm = name_norm /\ r.year = draft_year

\* The status of one known pair: decided by the first matching row.
KnownStatus(table, name_norm, draft_year) ==
    LET subset == SelectSeq(table,
                      LAMBDA r : Matches(r, name_norm, draft_year))
    IN IF subset = <<>> THEN "NOT IN DRAFT DATA"
       ELSE IF subset[1].is_allpro = 1 THEN "OK"
       ELSE "MISSING is_allpro flag"

\* What validate_known_allpros prints: one line per known pair, in sorted
\* order, and the names collected in issues.
validate_known_allpros(table) ==
    LET lines == [k \in 1..Len(sorted_KNOWN_ALLPROS) |->
                    [name_norm |-> sorted_KNOWN_ALLPROS[k][1],
                     draft_year |-> sorted_KNOWN_ALLPROS[k][2],
                     status |-> KnownStatus(table,
                                    sorted_KNOWN_ALLPROS[k][1],
                                    sorted_KNOWN_ALLPROS[k][2])]]
        failing == SelectSeq(lines, LAMBDA l : l.status # "OK")
    IN [lines |-> lines,
        issues |-> [k \in 1..Len(failing) |-> failing[k].name_norm]]

\* merged is the labeled table handed to the validation.
KnownInit ==
    /\ pc = "input"
    /\ merged \in SeqsUpTo(KnownRows, MaxKnownRows)
    /\ report = <<>>
    /\ draft_df = <<>> /\ allpro_df = <<>>
    /\ NormIdle /\ PosIdle /\ AggIdle /\ CleanIdle
    /\ CohortIdle /\ ScrapeIdle

\* The function has no raise and returns None: it always ends normally.
ValidateKnown ==
    /\ pc = "input"
    /\ report' = validate_known_allpros(merged)
    /\ pc' = "validated"
    /\ UNCHANGED <<cohortVars, scrapeVars, normVars, posVars, mergeVars,
                   aggVars, cleanVars>>

KnownNext == ValidateKnown

SpecKnown == KnownInit /\ [][KnownNext]_vars

\* The flags of the records of table that carry the pair.
FlagsOf(table, name_norm, draft_year) ==
    {table[i].is_allpro :
        i \in {j \in 1..Len(table) :
                 /\ table[j].player_name_norm = name_norm
                 /\ table[j].year = draft_year}}

\* C14: validate_known_allpros gives every known (name, year) pair exactly
\* one status: NOT_FOUND when no record has that name and year,
\* FLAG_MISSING when the matching records have is_allpro = 0, OK when they
\* have is_allpro = 1, however many match; the names it reports are those
\* whose status is not OK; the record table is left as it was and the run
\* always ends normally.
C14_KnownStatus ==
    [][pc = "input" =>
          /\ pc' = "validated"
          /\ merged' = merged
          /\ Len(report'.lines) = Cardinality(KNOWN_ALLPROS)
          /\ \A p \in KNOWN_ALLPROS :
                \E k \in 1..Len(report'.lines) :
                   /\ report'.lines[k].name_norm = p[1]
                   /\ report'.lines[k].draft_year = p[2]
                   /\ LET flags == FlagsOf(merged, p[1], p[2])
                          st == report'.lines[k].status
                      IN /\ st \in {"OK", "MISSING is_allpro flag",
                                    "NOT IN DRAFT DATA"}
                         /\ st = "NOT IN DRAFT DATA" <=> flags = {}
                         /\ flags = {1} => st = "OK"
                         /\ flags = {0} => st = "MISSING is_allpro flag"
          /\ {report'.issues[k] : k \in 1..Len(report'.issues)}
                = {report'.lines[k].name_norm :
                     k \in {j \in 1..Len(report'.lines) :
                              report'.lines[j].status # "OK"}}]_vars

\* All three statuses in one report: two records match (aaron donald,
\* 2014) with flag 1, one matches (travis kelce, 2013) with flag 0, and the
\* other pairs have no record.
C14_Witness ==
    /\ pc = "validated"
    /\ Len(merged) = 3
    /\ FlagsOf(merged, <<"aaron donald">>, 2014) = {1}
    /\ merged[1] = merged[2]
    /\ FlagsOf(merged, <<"travis kelce">>, 2013) = {0}
    /\ report.lines[1].name_norm = <<"aaron donald">>
    /\ report.lines[1].status = "OK"
    /\ report.lines[18].name_norm = <<"travis kelce">>
    /\ report.lines[18].status = "MISSING is_allpro flag"
    /\ report.lines[2].status = "NOT IN DRAFT DATA"
    /\ Len(report.issues) = 19

(***************************************************************************)
(* analyzer.py: the labeled table and the group-and-rate primitive         *)
(*                                                                         *)
(* The aggregations do not depend on the order of the input rows, so the   *)
(* labeled table df is a bag: df[t] is the number of rows equal to t, a    *)
(* record [position, round, pick, is_allpro].  A rate is the exact         *)
(* fraction <<numerator, denominator>>; NaN is <<0, 0>>.                   *)
(***************************************************************************)
NaN == <<0, 0>>

QB == <<"Q", "B">>
WR == <<"W", "R">>

\* The rows present in the table.
Present(table) == {t \in DOMAIN table : table[t] > 0}

RECURSIVE SumCount(_, _)
SumCount(table, S) ==
    IF S = {} THEN 0
    ELSE LET t == CHOOSE x \in S : TRUE
         IN table[t] + SumCount(table, S \ {t})

RECURSIVE SumAllpro(_, _)
SumAllpro(table, S) ==
    IF S = {} THEN 0
    ELSE LET t == CHOOSE x \in S : TRUE
         IN table[t] * t.is_allpro + SumAllpro(table, S \ {t})

\* len(df) and df["is_allpro"].sum()
NumRows(table) == SumCount(table, DOMAIN table)
NumAllpro(table) == SumAllpro(table, DOMAIN table)

\* A plausible slip: both aggregates given as "count".
GroupAgg_count(table, S) ==
    [allpro_count |-> SumCount(table, S),
     total_players |-> SumCount(table, S)]

\* ["is_allpro"].agg(allpro_count="sum", total_players="count") over the
\* rows S of one group.
GroupAgg(table, S) ==
    [allpro_count |-> SumAllpro(table, S),
     total_players |-> SumCount(table, S)]

\* grouped["allpro_count"] / grouped["total_players"]
HitRate(g) == <<g.allpro_count, g.total_players>>

\* Fractions with positive denominators, compared and added exactly.
RateLeq(x, y) == x[1] * y[2] <= y[1] * x[2]
RateEq(x, y) == x[1] * y[2] = y[1] * x[2]
RateAdd(x, y) == <<x[1] * y[2] + y[1] * x[2], x[2] * y[2]>>

\* The elements of a set of integers in ascending order.
RECURSIVE SortAsc_descending(_)
SortAsc_descending(S) ==
    IF S = {} THEN <<>>
    ELSE LET m == CHOOSE x \in S : \A y \in S : x >= y
         IN <<m>> \o SortAsc_descending(S \ {m})

RECURSIVE SortAsc(_)
SortAsc(S) ==
    IF S = {} THEN <<>>
    ELSE LET m == CHOOSE x \in S : \A y \in S : x <= y
         IN <<m>> \o SortAsc(S \ {m})

\* The orders sort_values may return for the rows G under the total
\* preorder before (a set of pairs <<a, b>>: a may precede b): any
\* arrangement with no row placed ahead of one that sorts strictly before
\* it (the default sort is not stable, so rows that compare equal may come
\* out in either order).
SortedArrangements(G, before) ==
    {q \in [1..Cardinality(G) -> G] :
        /\ \A i, j \in 1..Cardinality(G) : i # j => q[i] # q[j]
        /\ \A i, j \in 1..Cardinality(G) :
              i < j => <<q[i], q[j]>> \in before}

(***************************************************************************)
(* analyzer.py: compute_hit_rates_by_round                                 *)
(***************************************************************************)
compute_hit_rates_by_round(table) ==
    LET keys == {t.round : t \in Present(table)}
        order == SortAsc(keys)
        group(r) == GroupAgg(table, {t \in Present(table) : t.round = r})
    IN [i \in 1..Len(order) |->
          [round |-> order[i],
           allpro_count |-> group(order[i]).allpro_count,
           total_players |-> group(order[i]).total_players,
           hit_rate |-> HitRate(group(order[i]))]]

(***************************************************************************)
(* analyzer.py: compute_hit_rates_by_position                              *)
(***************************************************************************)
\* A plausible slip: a strict comparison with the threshold.
KeepGroup_strict(total_players, threshold) == total_players > threshold

\* grouped["total_players"] >= min_players
KeepGroup(total_players, threshold) == total_players >= threshold

\* The grouped rows that survive the threshold.  groupby drops the rows
\* whose key is missing.
PositionGroups(table, threshold) ==
    LET keys == {t.position : t \in Present(table)} \ {NA}
        group(p) == GroupAgg(table, {t \in Present(table) : t.position = p})
    IN {[position |-> p,
         allpro_count |-> group(p).allpro_count,
         total_players |-> group(p).total_players,
         hit_rate |-> HitRate(group(p))] :
            p \in {k \in keys : KeepGroup(group(k).total_players, threshold)}}

\* The tables compute_hit_rates_by_position may return: the surviving
\* groups in descending order of hit_rate.
compute_hit_rates_by_position(table, threshold) ==
    LET G == PositionGroups(table, threshold)
    IN SortedArrangements(G,
          {ab \in G \X G : RateLeq(ab[2].hit_rate, ab[1].hit_rate)})

(***************************************************************************)
(* analyzer.py: compute_hit_rate_by_pick_number                            *)
(***************************************************************************)
ROLLING_WINDOW == 10

RECURSIVE SumRates(_, _, _)
SumRates(rates, lo, hi) ==
    IF lo > hi THEN <<0, 1>>
    ELSE RateAdd(rates[lo], SumRates(rates, lo + 1, hi))

Max(a, b) == IF a >= b THEN a ELSE b
Min(a, b) == IF a <= b THEN a ELSE b

\* The rows (1-based, inclusive) of the centered window of row i of n:
\* offset = (window - 1) // 2 rows after i, the rest before, clipped to the
\* table.
RollingBounds(i, n) ==
    LET offset == (ROLLING_WINDOW - 1) \div 2
    IN [lo |-> Max(1, i + offset - ROLLING_WINDOW + 1),
        hi |-> Min(n, i + offset)]

\* A plausible slip: min_periods left at its default, the window width.
RollingMean_full_periods(rates, i) ==
    LET w == RollingBounds(i, Len(rates))
        total == SumRates(rates, w.lo, w.hi)
    IN IF w.hi - w.lo + 1 < ROLLING_WINDOW THEN NaN
       ELSE <<total[1], total[2] * (w.hi - w.lo + 1)>>

\* .rolling(window=10, min_periods=1, center=True).mean() at row i: the
\* mean of the observations in the window; every hit_rate is an
\* observation, so min_periods=1 is always met.
RollingMean(rates, i) ==
    LET w == RollingBounds(i, Len(rates))
        total == SumRates(rates, w.lo, w.hi)
    IN <<total[1], total[2] * (w.hi - w.lo + 1)>>

\* The grouped table of the picks order[i..], one row per pick.
RECURSIVE PickGroups(_, _, _, _)
PickGroups(table, present, order, i) ==
    IF i > Len(order) THEN <<>>
    ELSE LET g == GroupAgg(table, {t \in present : t.pick = order[i]})
         IN <<[pick |-> order[i],
               allpro_count |-> g.allpro_count,
               total_players |-> g.total_players,
               hit_rate |-> HitRate(g)]>>
            \o PickGroups(table, present, order, i + 1)

\* grouped["rolling_hit_rate"] = ...: the column added to the rows i.. of
\* the grouped table.
RECURSIVE WithRolling(_, _, _)
WithRolling(grouped, rates, i) ==
    IF i > Len(grouped) THEN <<>>
    ELSE <<[pick |-> grouped[i].pick,
            allpro_count |-> grouped[i].allpro_count,
            total_players |-> grouped[i].total_players,
            hit_rate |-> grouped[i].hit_rate,
            rolling_hit_rate |-> RollingMean(rates, i)]>>
         \o WithRolling(grouped, rates, i + 1)

compute_hit_rate_by_pick_number(table) ==
    LET present == Present(table)
        grouped ==
            PickGroups(table, present, SortAsc({t.pick : t \in present}), 1)
        rates == [i \in 1..Len(grouped) |-> grouped[i].hit_rate]
    IN WithRolling(grouped, rates, 1)

(***************************************************************************)
(* analyzer.py: compute_hit_rates_by_round_and_position                    *)
(***************************************************************************)
\* A plausible slip: the mask also taking the cells of exactly 10 players.
MaskCell_inclusive(total_players) == total_players <= 10

\* grouped["total_players"] < 10
MaskCell(total_players) == total_players < 10

\* The pivot: index = the positions of the groups, columns = the rounds of
\* the groups, and a cell for every (position, round) of the grid; a cell
\* without a group is NaN.
compute_hit_rates_by_round_and_position(table) ==
    LET rows == {t \in Present(table) : t.position # NA}
        keys == {<<t.position, t.round>> : t \in rows}
        group(k) ==
            GroupAgg(table, {t \in rows : t.position = k[1] /\ t.round = k[2]})
        hit_rate(k) ==
            IF MaskCell(group(k).total_players) THEN NaN
            ELSE HitRate(group(k))
        index == {k[1] : k \in keys}
        columns == {k[2] : k \in keys}
    IN [index |-> index,
        columns |-> columns,
        cells |-> [k \in index \X columns |->
                      IF k \in keys THEN hit_rate(k) ELSE NaN]]

(***************************************************************************)
(* analyzer.py: compute_value_table                                        *)
(***************************************************************************)
\* A plausible slip: the two sample conditions joined with "or".
ValueEligible_either(r1_count, r35_count) ==
    r1_count >= 5 \/ r35_count >= 10

\* (merged["r1_count"] >= 5) & (merged["r35_count"] >= 10)
ValueEligible(r1_count, r35_count) ==
    r1_count >= 5 /\ r35_count >= 10

\* A plausible slip: the division without the guard.  In floating point a
\* zero divisor gives inf, or NaN for 0/0, here <<x, 0>>.
ValueRatio_unguarded(r35_rate, r1_rate) ==
    <<r35_rate[1] * r1_rate[2], r35_rate[2] * r1_rate[1]>>

\* row["r35_rate"] / row["r1_rate"] if row["r1_rate"] > 0 else nan
ValueRatio(r35_rate, r1_rate) ==
    IF r1_rate[1] > 0
    THEN <<r35_rate[1] * r1_rate[2], r35_rate[2] * r1_rate[1]>>
    ELSE NaN

\* df["round"].between(3, 5)
InRounds3To5(round) == round >= 3 /\ round <= 5

\* Descending by ratio, the NaN ratios last.
RatioBefore(a, b) ==
    \/ b.late_round_to_r1_ratio = NaN
    \/ /\ a.late_round_to_r1_ratio # NaN
       /\ RateLeq(b.late_round_to_r1_ratio, a.late_round_to_r1_ratio)

ValueRows(table) ==
    LET rows == {t \in Present(table) : t.position # NA}
        r1_rows(p) == {t \in rows : t.position = p /\ t.round = 1}
        r35_rows(p) == {t \in rows : t.position = p /\ InRounds3To5(t.round)}
        r1(p) == GroupAgg(table, r1_rows(p))
        r35(p) == GroupAgg(table, r35_rows(p))
        \* r1.merge(r35, on="position", how="inner")
        joined == {p \in {t.position : t \in rows} :
                      r1_rows(p) # {} /\ r35_rows(p) # {}}
        kept == {p \in joined :
                    ValueEligible(r1(p).total_players, r35(p).total_players)}
    IN {[position |-> p,
         r1_rate |-> HitRate(r1(p)),
         r35_rate |-> HitRate(r35(p)),
         late_round_to_r1_ratio |-> ValueRatio(HitRate(r35(p)), HitRate(r1(p))),
         r35_count |-> r35(p).total_players,
         r1_count |-> r1(p).total_players] : p \in kept}

\* The tables compute_value_table may return.
compute_value_table(table) ==
    LET G == ValueRows(table)
    IN SortedArrangements(G, {ab \in G \X G : RatioBefore(ab[1], ab[2])})

(***************************************************************************)
(* The aggregation views applied to a small labeled table                  *)
(***************************************************************************)
\* The rows the small labeled table is built from.  Every row has a
\* position: the dashboard passes the views only rows whose position is
\* among the selected ones.
AggRowTypes ==
    [position : {QB, WR}, round : {1, 3}, pick : {1, 2}, is_allpro : {0, 1}]

\* The thresholds a caller may pass as min_players.
MinPlayersChoices == 0..(MaxRows + 1)

AggInit ==
    /\ pc = "input"
    /\ df = [t \in AggRowTypes |-> 0]
    /\ min_players = 0
    /\ result = <<>>
    /\ NormIdle /\ PosIdle /\ MergeIdle /\ CleanIdle
    /\ CohortIdle /\ KnownIdle /\ ScrapeIdle

\* One more row in the labeled table.
AddRow ==
    /\ pc = "input"
    /\ NumRows(df) < MaxRows
    /\ \E t \in DOMAIN df : df' = [df EXCEPT ![t] = @ + 1]
    /\ UNCHANGED <<cohortVars, knownVars, scrapeVars,
                   pc, min_players, result, normVars, posVars, mergeVars,
                   cleanVars>>

ByRound ==
    /\ pc = "input"
    /\ result' = compute_hit_rates_by_round(df)
    /\ pc' = "by_round"
    /\ UNCHANGED <<cohortVars, knownVars, scrapeVars,
                   df, min_players, normVars, posVars, mergeVars, cleanVars>>

ByPosition ==
    /\ pc = "input"
    /\ \E m \in MinPlayersChoices :
          /\ min_players' = m
          /\ result' \in compute_hit_rates_by_position(df, m)
    /\ pc' = "by_position"
    /\ UNCHANGED <<cohortVars, knownVars, scrapeVars,
                   df, normVars, posVars, mergeVars, cleanVars>>

ByRoundAndPosition ==
    /\ pc = "input"
    /\ result' = compute_hit_rates_by_round_and_position(df)
    /\ pc' = "by_round_and_position"
    /\ UNCHANGED <<cohortVars, knownVars, scrapeVars,
                   df, min_players, normVars, posVars, mergeVars, cleanVars>>

ByPickNumber ==
    /\ pc = "input"
    /\ result' = compute_hit_rate_by_pick_number(df)
    /\ pc' = "by_pick"
    /\ UNCHANGED <<cohortVars, knownVars, scrapeVars,
                   df, min_players, normVars, posVars, mergeVars, cleanVars>>

ValueTable ==
    /\ pc = "input"
    /\ result' \in compute_value_table(df)
    /\ pc' = "value_table"
    /\ UNCHANGED <<cohortVars, knownVars, scrapeVars,
                   df, min_players, normVars, posVars, mergeVars, cleanVars>>

AggNext ==
    \/ AddRow
    \/ ByRound
    \/ ByPosition
    \/ ByRoundAndPosition
    \/ ByPickNumber
    \/ ValueTable

SpecAgg == AggInit /\ [][AggNext]_vars

RECURSIVE SumField(_, _, _)
SumField(rows, field, i) ==
    IF i > Len(rows) THEN 0
    ELSE rows[i][field] + SumField(rows, field, i + 1)

\* C3 as stated: in every view that returns counts (by round, by position,
\* by pick) the allpro_count of the returned groups sums to the number of
\* All-Pro rows of the input, and their total_players to the number of
\* input rows.
C3_Conservation ==
    pc \in {"by_round", "by_position", "by_pick"} =>
        /\ SumField(result, "allpro_count", 1) = NumAllpro(df)
        /\ SumField(result, "total_players", 1) = NumRows(df)

\* The rows the by-position view accounts for: those in a position group
\* of at least min_players rows.
CountedByPosition ==
    {t \in Present(df) :
        /\ t.position # NA
        /\ SumCount(df, {u \in Present(df) : u.position = t.position})
              >= min_players}

\* C3, amended: the by-round and by-pick views conserve the whole input;
\* the groups returned by the by-position view sum to the rows that lie
\* in a position group of at least min_players rows.
C3_ConservationAmended ==
    /\ pc \in {"by_round", "by_pick"} =>
          /\ SumField(result, "allpro_count", 1) = NumAllpro(df)
          /\ SumField(result, "total_players", 1) = NumRows(df)
    /\ pc = "by_position" =>
          /\ SumField(result, "allpro_count", 1) =
                SumAllpro(df, CountedByPosition)
          /\ SumField(result, "total_players", 1) =
                SumCount(df, CountedByPosition)

\* The by-position view returned one group of two rows and left out a
\* smaller group that holds an All-Pro.
C3_Witness ==
    /\ pc = "by_position"
    /\ min_players = 2
    /\ Len(result) = 1
    /\ NumRows(df) = 3
    /\ SumField(result, "total_players", 1) = 2
    /\ SumField(result, "allpro_count", 1) < NumAllpro(df)

\* C4: every row returned by the by-position view has at least min_players
\* players, and every position whose group has at least min_players rows
\* is returned, once.
C4_MinPlayers ==
    pc = "by_position" =>
        /\ \A i \in 1..Len(result) : result[i].total_players >= min_players
        /\ \A p \in {t.position : t \in Present(df)} \ {NA} :
              SumCount(df, {t \in Present(df) : t.position = p})
                    >= min_players
                 => \E i \in 1..Len(result) : result[i].position = p
        /\ \A i, j \in 1..Len(result) :
              result[i].position = result[j].position => i = j

\* A group exactly at the threshold is returned and a group below it is
\* left out.
C4_Witness ==
    /\ pc = "by_position"
    /\ min_players = 2
    /\ Len(result) = 1
    /\ result[1].total_players = 2
    /\ NumRows(df) = 3

(***************************************************************************)
(* The position x round pivot applied to tables with well-filled cells     *)
(***************************************************************************)
PivotRowTypes ==
    [position : {QB, WR}, round : {1, 2}, pick : {1}, is_allpro : {0, 1}]

PivotInit ==
    /\ pc = "input"
    /\ df = [t \in PivotRowTypes |-> 0]
    /\ min_players = 0
    /\ result = <<>>
    /\ NormIdle /\ PosIdle /\ MergeIdle /\ CleanIdle
    /\ CohortIdle /\ KnownIdle /\ ScrapeIdle

AddPivotRow ==
    /\ pc = "input"
    /\ NumRows(df) < MaxPivotRows
    /\ \E t \in DOMAIN df : df' = [df EXCEPT ![t] = @ + 1]
    /\ UNCHANGED <<cohortVars, knownVars, scrapeVars,
                   pc, min_players, result, normVars, posVars, mergeVars,
                   cleanVars>>

PivotNext == AddPivotRow \/ ByRoundAndPosition

SpecPivot == PivotInit /\ [][PivotNext]_vars

\* C5: a cell of the pivot is NaN exactly when fewer than 10 players have
\* its position and round; a cell of 10 or more players holds its hit rate
\* (possibly 0), never NaN.
C5_PivotSentinel ==
    pc = "by_round_and_position" =>
        \A k \in DOMAIN result.cells :
            LET cell == {t \in Present(df) :
                            t.position = k[1] /\ t.round = k[2]}
                n == SumCount(df, cell)
            IN /\ result.cells[k] = NaN <=> n < 10
               /\ n >= 10 => result.cells[k] = <<SumAllpro(df, cell), n>>

\* The pivot holds a cell of exactly 10 players with a computed rate of 0
\* next to a masked cell that has a player.
C5_Witness ==
    /\ pc = "by_round_and_position"
    /\ \E k \in DOMAIN result.cells : result.cells[k] = <<0, 10>>
    /\ \E k \in DOMAIN result.cells :
          /\ result.cells[k] = NaN
          /\ \E t \in Present(df) : t.position = k[1] /\ t.round = k[2]

(***************************************************************************)
(* The value table applied to tables that reach its sample thresholds      *)
(***************************************************************************)
ValueRowTypes ==
    [position : {QB}, round : {1, 3, 5, 6}, pick : {1}, is_allpro : {0, 1}]

ValueInit ==
    /\ pc = "input"
    /\ df = [t \in ValueRowTypes |-> 0]
    /\ min_players = 0
    /\ result = <<>>
    /\ NormIdle /\ PosIdle /\ MergeIdle /\ CleanIdle
    /\ CohortIdle /\ KnownIdle /\ ScrapeIdle

AddValueRow ==
    /\ pc = "input"
    /\ NumRows(df) < MaxValueRows
    /\ \E t \in DOMAIN df : df' = [df EXCEPT ![t] = @ + 1]
    /\ UNCHANGED <<cohortVars, knownVars, scrapeVars,
                   pc, min_players, result, normVars, posVars, mergeVars,
                   cleanVars>>

ValueNext == AddValueRow \/ ValueTable

SpecValue == ValueInit /\ [][ValueNext]_vars

\* The round-1 rows and the rounds-3-to-5 rows of position p in the input.
Round1Rows(p) == {t \in Present(df) : t.position = p /\ t.round = 1}
Rounds3To5Rows(p) ==
    {t \in Present(df) : t.position = p /\ t.round \in {3, 4, 5}}

\* C7: every row of the value table is a position with at least 5 round-1
\* players and at least 10 players of rounds 3 to 5 in the input, and
\* reports those two counts.
C7_ValueSamples ==
    pc = "value_table" =>
        \A i \in 1..Len(result) :
            /\ SumCount(df, Round1Rows(result[i].position)) >= 5
            /\ SumCount(df, Rounds3To5Rows(result[i].position)) >= 10
            /\ result[i].r1_count = SumCount(df, Round1Rows(result[i].position))
            /\ result[i].r35_count =
                  SumCount(df, Rounds3To5Rows(result[i].position))

\* A position exactly at both sample thresholds is returned, next to
\* players of a round outside 1 and 3 to 5.
C7_Witness ==
    /\ pc = "value_table"
    /\ Len(result) = 1
    /\ result[1].r1_count = 5
    /\ result[1].r35_count = 10
    /\ NumRows(df) = 16

\* C8: the ratio of a returned position is NaN when its round-1 hit rate
\* is 0, and otherwise the quotient r35_rate / r1_rate with a non-zero
\* divisor.
C8_ValueRatio ==
    pc = "value_table" =>
        \A i \in 1..Len(result) :
            LET p == result[i].position
                a1 == SumAllpro(df, Round1Rows(p))
                c1 == SumCount(df, Round1Rows(p))
                a35 == SumAllpro(df, Rounds3To5Rows(p))
                c35 == SumCount(df, Rounds3To5Rows(p))
                ratio == result[i].late_round_to_r1_ratio
            IN IF a1 = 0
               THEN ratio = NaN
               ELSE /\ ratio[2] # 0
                    /\ ratio[1] * (c35 * a1) = (a35 * c1) * ratio[2]

\* A returned position without a round-1 All-Pro but with a later-round
\* one: the ratio is the undefined marker.
C8_Witness ==
    /\ pc = "value_table"
    /\ Len(result) = 1
    /\ result[1].r1_rate[1] = 0
    /\ result[1].r35_rate[1] > 0
    /\ result[1].late_round_to_r1_ratio = NaN

(***************************************************************************)
(* The by-pick view applied to tables longer than the rolling window       *)
(***************************************************************************)
PickRowTypes ==
    [position : {QB}, round : {1}, pick : 1..MaxPicks, is_allpro : {0, 1}]

\* The rows one pick number brings: <<misses, All-Pros>>, for the hit
\* rates 0 and 1/2.
PickCompositions == {<<1, 0>>, <<1, 1>>}

PickInit ==
    /\ pc = "input"
    /\ df = [t \in PickRowTypes |-> 0]
    /\ min_players = 0
    /\ result = <<>>
    /\ NormIdle /\ PosIdle /\ MergeIdle /\ CleanIdle
    /\ CohortIdle /\ KnownIdle /\ ScrapeIdle

\* The row of pick number k with flag f.
PickRow(k, f) == [position |-> QB, round |-> 1, pick |-> k, is_allpro |-> f]

\* The rows of the next overall pick number (a draft class numbers its
\* picks 1, 2, 3, ... without a gap).
AddPick ==
    /\ pc = "input"
    /\ \E k \in 1..MaxPicks :
          /\ df[PickRow(k, 0)] + df[PickRow(k, 1)] = 0
          /\ IF k = 1 THEN TRUE
             ELSE df[PickRow(k - 1, 0)] + df[PickRow(k - 1, 1)] > 0
          /\ \E c \in PickCompositions :
                df' = [df EXCEPT ![PickRow(k, 0)] = @ + c[1],
                                 ![PickRow(k, 1)] = @ + c[2]]
    /\ UNCHANGED <<cohortVars, knownVars, scrapeVars,
                   pc, min_players, result, normVars, posVars, mergeVars,
                   cleanVars>>

PickNext == AddPick \/ ByPickNumber

SpecPick == PickInit /\ [][PickNext]_vars

\* C6: when every pick group has the same hit rate, the rolling hit rate
\* of every returned row is defined and equals that rate, the first and
\* last rows included.
C6_RollingConstant ==
    (/\ pc = "by_pick"
     /\ \A i, j \in 1..Len(result) :
           RateEq(result[i].hit_rate, result[j].hit_rate))
    => \A i \in 1..Len(result) :
          /\ result[i].rolling_hit_rate[2] > 0
          /\ RateEq(result[i].rolling_hit_rate, result[i].hit_rate)

\* Eleven picks of hit rate 1/2 each: the first and last rows average over
\* fewer than 10 rows, the sixth over a full window.
C6_Witness ==
    /\ pc = "by_pick"
    /\ Len(result) = 11
    /\ \A i \in 1..Len(result) : result[i].hit_rate = <<1, 2>>
    /\ RateEq(result[1].rolling_hit_rate, <<1, 2>>)
    /\ RateEq(result[11].rolling_hit_rate, <<1, 2>>)

(***************************************************************************)
(* analyzer.py: the by-round view on tables over three rounds              *)
(***************************************************************************)
\* The records of the five-record scenario, with either flag.
RoundRowTypes ==
    {[position |-> t[1], round |-> t[2], pick |-> t[3], is_allpro |-> f] :
        t \in {<<QB, 1, 1>>, <<QB, 1, 2>>, <<QB, 7, 250>>, <<WR, 1, 5>>,
               <<WR, 3, 70>>},
        f \in {0, 1}}

RoundInit ==
    /\ pc = "input"
    /\ df = [t \in RoundRowTypes |-> 0]
    /\ min_players = 0
    /\ result = <<>>
    /\ NormIdle /\ PosIdle /\ MergeIdle /\ CleanIdle
    /\ CohortIdle /\ KnownIdle /\ ScrapeIdle

AddRoundRow ==
    /\ pc = "input"
    /\ NumRows(df) < MaxRoundRows
    /\ \E t \in DOMAIN df : df' = [df EXCEPT ![t] = @ + 1]
    /\ UNCHANGED <<cohortVars, knownVars, scrapeVars,
                   pc, min_players, result, normVars, posVars, mergeVars,
                   cleanVars>>

RoundNext == AddRoundRow \/ ByRound

SpecRound == RoundInit /\ [][RoundNext]_vars

\* The input rows of round r.
RowsOfRound(r) == {t \in Present(df) : t.round = r}

\* C16: compute_hit_rates_by_round returns one row per distinct round of
\* the input, in strictly ascending round order, with total_players the
\* number of input rows of the round, allpro_count the number of those with
\* is_allpro = 1, and hit_rate = allpro_count / total_players.
C16_ByRound ==
    pc = "by_round" =>
        /\ {result[i].round : i \in 1..Len(result)}
              = {t.round : t \in Present(df)}
        /\ \A i \in 1..(Len(result) - 1) :
              result[i].round < result[i + 1].round
        /\ \A i \in 1..Len(result) :
              LET rows == RowsOfRound(result[i].round)
              IN /\ result[i].total_players = SumCount(df, rows)
                 /\ result[i].allpro_count
                       = SumCount(df, {t \in rows : t.is_allpro = 1})
                 /\ result[i].total_players > 0
                 /\ result[i].hit_rate[2] > 0
                 /\ RateEq(result[i].hit_rate,
                           <<result[i].allpro_count,
                             result[i].total_players>>)

\* The five-record scenario: round 1 with 2 of 3, rounds 3 and 7 with
\* 0 of 1.
C16_Witness ==
    /\ pc = "by_round"
    /\ NumRows(df) = 5
    /\ df[[position |-> QB, round |-> 1, pick |-> 1, is_allpro |-> 1]] = 1
    /\ df[[position |-> QB, round |-> 1, pick |-> 2, is_allpro |-> 0]] = 1
    /\ df[[position |-> QB, round |-> 7, pick |-> 250, is_allpro |-> 0]] = 1
    /\ df[[position |-> WR, round |-> 1, pick |-> 5, is_allpro |-> 1]] = 1
    /\ df[[position |-> WR, round |-> 3, pick |-> 70, is_allpro |-> 0]] = 1
    /\ Len(result) = 3
    /\ result[1].round = 1 /\ RateEq(result[1].hit_rate, <<2, 3>>)
    /\ result[1].allpro_count = 2 /\ result[1].total_players = 3
    /\ result[2].round = 3 /\ RateEq(result[2].hit_rate, <<0, 1>>)
    /\ result[3].round = 7 /\ RateEq(result[3].hit_rate, <<0, 1>>)

(***************************************************************************)
(* cleaner.py: clean_draft_data and load_from_excel                        *)
(*                                                                         *)
(* raw_rows is the table after the files are read and concatenated: every  *)
(* field is a string or missing.  A numeric column after pd.to_numeric     *)
(* holds {n} for the number n and {} for NaN.                              *)
(***************************************************************************)
RawRounds == {<<"1">>, <<"0">>, <<"R", "n", "d">>}
RawPicks == {<<"1">>, <<"0">>, NA}
RawYears == {<<"2", "0", "2", "0">>, <<"2", "0", "2", "1">>, <<"x">>}
RawNames == {<<"a", ".">>, <<" ">>, NA}
RawPositions == {<<"F", "S">>}
RawAp1Counts == {<<"1">>, NA}

RawRowTypes ==
    [round : RawRounds, pick : RawPicks, year : RawYears,
     player_name : RawNames, position : RawPositions]

IsDigit(c) == c \in {"0", "1", "2", "3", "4", "5", "6", "7", "8", "9"}

DigitValue(c) ==
    CASE c = "0" -> 0 [] c = "1" -> 1 [] c = "2" -> 2 [] c = "3" -> 3
      [] c = "4" -> 4 [] c = "5" -> 5 [] c = "6" -> 6 [] c = "7" -> 7
      [] c = "8" -> 8 [] c = "9" -> 9

\* The value of a non-empty string of digits.
RECURSIVE DigitsValue(_)
DigitsValue(s) ==
    IF s = <<>> THEN 0
    ELSE 10 * DigitsValue(SubSeq(s, 1, Len(s) - 1)) + DigitValue(s[Len(s)])

AllDigits(s) == s # <<>> /\ \A k \in 1..Len(s) : IsDigit(s[k])

\* The digits of s without its trailing zeros.
RECURSIVE StripTrailingZeros(_)
StripTrailingZeros(s) ==
    IF s # <<>> /\ s[Len(s)] = "0"
    THEN StripTrailingZeros(SubSeq(s, 1, Len(s) - 1))
    ELSE s

\* The unsigned decimal literal s as a number: int is its whole part and
\* frac the digits after the point, <<>> when the number is integral.
DecimalValue(s) ==
    LET dots == {k \in 1..Len(s) : s[k] = "."}
    IN IF AllDigits(s) THEN {[int |-> DigitsValue(s), frac |-> <<>>]}
       ELSE IF Cardinality(dots) = 1 /\ Len(s) > 1
       THEN LET k == CHOOSE d \in dots : TRUE
                whole == SubSeq(s, 1, k - 1)
                digits == SubSeq(s, k + 1, Len(s))
            IN IF (whole = <<>> \/ AllDigits(whole))
                     /\ (digits = <<>> \/ AllDigits(digits))
               THEN {[int |-> DigitsValue(whole),
                      frac |-> StripTrailingZeros(digits)]}
               ELSE {}
       ELSE {}

\* pd.to_numeric(column, errors="coerce") on one value: the number an
\* optionally signed decimal literal denotes, NaN for a missing value and
\* for a string that is no number.  The result is {} for NaN and {x} for
\* the number x.
ToNumeric(s) ==
    IF s = NA THEN {}
    ELSE IF s # <<>> /\ s[1] = "-"
         THEN {[int |-> -x.int, frac |-> x.frac] : x \in DecimalValue(Tail(s))}
    ELSE DecimalValue(s)

\* .astype(int) on a value that is not NaN: truncation toward zero.
AsInt(v) == (CHOOSE x \in v : TRUE).int

\* df[df["round"] != "Rnd"]: a missing round is not equal to "Rnd".
NotHeaderRow(r) == r.round # <<"R", "n", "d">>

\* df[df["player_name"].str.strip() != ""], after the dropna on the name.
HasPlayerName(r) == r.player_name # NA /\ Strip(r.player_name) # <<>>

\* The three numeric columns all coerce to a number.
NumericOk(r) ==
    /\ ToNumeric(r.round) # {}
    /\ ToNumeric(r.pick) # {}
    /\ ToNumeric(r.year) # {}

\* The columns of a surviving row after the casts, the position step and
\* the name normalization.
CleanedRow(r) ==
    [year |-> AsInt(ToNumeric(r.year)),
     round |-> AsInt(ToNumeric(r.round)),
     pick |-> AsInt(ToNumeric(r.pick)),
     player_name |-> r.player_name,
     position |-> CanonicalPosition(r.position),
     player_name_norm |-> normalize_name(r.player_name)]

clean_draft_data(rows) ==
    LET kept == SelectSeq(rows,
                  LAMBDA r : /\ NotHeaderRow(r)
                             /\ r.round # NA /\ r.pick # NA
                             /\ HasPlayerName(r)
                             /\ NumericOk(r))
    IN [i \in 1..Len(kept) |-> CleanedRow(kept[i])]

\* load_from_excel on the rows of the sheet; ap1[i] is the Misc_AP1 cell
\* of row i.
load_from_excel(rows, ap1) ==
    LET idx == SelectSeq([i \in 1..Len(rows) |-> i],
                  LAMBDA i : /\ NotHeaderRow(rows[i])
                             /\ HasPlayerName(rows[i])
                             /\ NumericOk(rows[i]))
        \* pd.to_numeric(ap1_count, errors="coerce").fillna(0).astype(int)
        ap1_count(i) ==
            IF ToNumeric(ap1[i]) = {} THEN 0 ELSE AsInt(ToNumeric(ap1[i]))
    IN [k \in 1..Len(idx) |->
          LET c == CleanedRow(rows[idx[k]])
          IN [year |-> c.year, round |-> c.round, pick |-> c.pick,
              player_name |-> c.player_name, position |-> c.position,
              player_name_norm |-> c.player_name_norm,
              ap1_count |-> ap1_count(idx[k]),
              is_allpro |-> IF ap1_count(idx[k]) > 0 THEN 1 ELSE 0]]

\* n_files source files were found; raw_rows is what reading and
\* concatenating them gives.
CleanInit ==
    /\ pc = "input"
    /\ n_files \in 0..MaxRawFiles
    /\ raw_rows \in SeqsUpTo(RawRowTypes, MaxRawRows)
    /\ n_files = 0 => raw_rows = <<>>
    /\ cleaned = <<>>
    /\ NormIdle /\ PosIdle /\ MergeIdle /\ AggIdle
    /\ CohortIdle /\ KnownIdle /\ ScrapeIdle

\* clean_draft_data: FileNotFoundError when the glob matches no file;
\* otherwise the cleaned table is saved and returned.
CleanDraftData ==
    /\ pc = "input"
    /\ IF n_files = 0
       THEN cleaned' = cleaned /\ pc' = "file_not_found"
       ELSE cleaned' = clean_draft_data(raw_rows) /\ pc' = "draft_cleaned"
    /\ UNCHANGED <<cohortVars, knownVars, scrapeVars, raw_rows, n_files,
                   normVars, posVars, mergeVars, aggVars>>

\* load_from_excel: pd.read_excel raises when the workbook is missing.
LoadFromExcel ==
    /\ pc = "input"
    /\ IF n_files = 0
       THEN cleaned' = cleaned /\ pc' = "file_not_found"
       ELSE /\ \E ap1 \in [1..Len(raw_rows) -> RawAp1Counts] :
                  cleaned' = load_from_excel(raw_rows, ap1)
            /\ pc' = "excel_loaded"
    /\ UNCHANGED <<cohortVars, knownVars, scrapeVars, raw_rows, n_files,
                   normVars, posVars, mergeVars, aggVars>>

CleanNext == CleanDraftData \/ LoadFromExcel

SpecClean == CleanInit /\ [][CleanNext]_vars

\* C10: after draft cleaning, by either path, the output holds at most one
\* record per (year, pick), and every record's round and pick are at
\* least 1.
C10_DraftInvariant ==
    pc \in {"draft_cleaned", "excel_loaded"} =>
        /\ \A i, j \in 1..Len(cleaned) :
              (cleaned[i].year = cleaned[j].year
                  /\ cleaned[i].pick = cleaned[j].pick) => i = j
        /\ \A i \in 1..Len(cleaned) :
              cleaned[i].round >= 1 /\ cleaned[i].pick >= 1

\* C11: a cleaner that finds source files but is left with zero usable
\* rows fails; it never returns (and saves) an empty table.
C11_EmptySource ==
    pc \in {"draft_cleaned", "allpro_cleaned"} => cleaned # <<>>

(***************************************************************************)
(* cleaner.py: clean_allpro_data                                           *)
(*                                                                         *)
(* The year column after the cast to the nullable Int64 holds {n} for the  *)
(* year n and {} for <NA>.                                                 *)
(***************************************************************************)
RawAllproYears ==
    {<<"2", "0", "2", "0">>, <<"2", "0", "2", "1">>, <<"x">>,
     <<"2", "0", "2", "0", ".", "5">>}
RawAllproNames == RawNames \cup {<<"a">>}

RawAllproRowTypes == [year : RawAllproYears, player_name : RawAllproNames]

\* The rows left by dropna(subset=["player_name"]) and the strip filter.
NamedRows(rows) == SelectSeq(rows, HasPlayerName)

\* .astype("Int64") accepts a float column only when every value that is
\* not NaN is integral; otherwise it raises TypeError.
Int64CastFails(rows) ==
    \E i \in 1..Len(rows) :
        \E x \in ToNumeric(rows[i].year) : x.frac # <<>>

\* One value of the column after the cast.
AsInt64(v) == IF v = {} THEN {} ELSE {AsInt(v)}

\* drop_duplicates(subset=["player_name_norm", "year"]) keeps the first row
\* of every key; two missing years count as equal.
DuplicateKey(a, b) ==
    a.player_name_norm = b.player_name_norm /\ a.year = b.year

DropDuplicates(rows) ==
    LET first == SelectSeq([i \in 1..Len(rows) |-> i],
                    LAMBDA i : \A j \in 1..(i - 1) :
                                   ~DuplicateKey(rows[j], rows[i]))
    IN [k \in 1..Len(first) |-> rows[first[k]]]

\* clean_allpro_data on the concatenated rows, when the cast succeeds.
clean_allpro_data(rows) ==
    LET kept == NamedRows(rows)
    IN DropDuplicates(
          [i \in 1..Len(kept) |->
              [year |-> AsInt64(ToNumeric(kept[i].year)),
               player_name |-> kept[i].player_name,
               player_name_norm |-> normalize_name(kept[i].player_name)]])

AllproInit ==
    /\ pc = "input"
    /\ n_files \in 0..MaxRawFiles
    /\ raw_rows \in SeqsUpTo(RawAllproRowTypes, MaxRawAllproRows)
    /\ n_files = 0 => raw_rows = <<>>
    /\ cleaned = <<>>
    /\ NormIdle /\ PosIdle /\ MergeIdle /\ AggIdle
    /\ CohortIdle /\ KnownIdle /\ ScrapeIdle

\* clean_allpro_data: FileNotFoundError when the glob matches no file,
\* TypeError when the year cast fails; otherwise the cleaned table is saved
\* and returned.
CleanAllproData ==
    /\ pc = "input"
    /\ IF n_files = 0
       THEN cleaned' = cleaned /\ pc' = "file_not_found"
       ELSE IF Int64CastFails(NamedRows(raw_rows))
       THEN cleaned' = cleaned /\ pc' = "type_error"
       ELSE cleaned' = clean_allpro_data(raw_rows) /\ pc' = "allpro_cleaned"
    /\ UNCHANGED <<cohortVars, knownVars, scrapeVars, raw_rows, n_files,
                   normVars, posVars, mergeVars, aggVars>>

AllproNext == CleanAllproData

SpecAllpro == AllproInit /\ [][AllproNext]_vars

\* The (player_name_norm, year) key of a raw row; a year that is no
\* integer is absent.
RawKey(r) ==
    LET v == ToNumeric(r.year)
    IN [player_name_norm |-> normalize_name(r.player_name),
        year |-> IF v # {} /\ (\A x \in v : x.frac = <<>>)
                 THEN {AsInt(v)} ELSE {}]

\* C15: once clean_allpro_data has run on existing files, no two output
\* records share (player_name_norm, year), and every input row with a
\* non-blank player name has exactly one output record with its key, its
\* year absent when the raw year is malformed.
C15_AllproInvariant ==
    (pc \in {"allpro_cleaned", "type_error"}) =>
        /\ \A i, j \in 1..Len(cleaned) :
              DuplicateKey(cleaned[i], cleaned[j]) => i = j
        /\ \A i \in 1..Len(raw_rows) :
              HasPlayerName(raw_rows[i]) =>
                 Cardinality({k \in 1..Len(cleaned) :
                                DuplicateKey(cleaned[k],
                                             RawKey(raw_rows[i]))}) = 1

\* The same, for runs that end without the cast error.
AllproInvariantWithoutCastError ==
    pc = "type_error" \/ C15_AllproInvariant

(***************************************************************************)
(* scraper.py: _get and scrape_all_years                                   *)
(*                                                                         *)
(* cache[f] counts how often the raw file f has been written; a file that  *)
(* exists before the run starts at 1.  log records every request with its  *)
(* response, every sleep, every skipped file and every written file, in    *)
(* the order they happen.                                                  *)
(***************************************************************************)
ScrapeYears == {2020, 2021}
Pages == {"draft", "allpro"}
RawFiles == Pages \X ScrapeYears

\* The status codes a server answers with.
StatusCodes == {200, 404, 429, 500}

\* retries=1 of _get's signature and the seconds of its time.sleep.
DEFAULT_RETRIES == 1
BACKOFF_SECONDS == 30

\* draft_path / allpro_path of the loop's current year.
CurrentFile == <<page, years[year_idx]>>

\* path.exists()
Cached_never(f) == FALSE

Cached(f) == cache[f] > 0

\* resp.status_code == 429 and retries > 0
RetryAllowed_any_error(code, left) == code >= 400 /\ left > 0

RetryAllowed(code, left) == code = 429 /\ left > 0

Event(op, code, seconds) ==
    [op |-> op, page |-> page, year |-> years[year_idx], status |-> code,
     seconds |-> seconds]

ScrapeInit ==
    /\ pc = "check"
    /\ years \in SeqsUpTo(ScrapeYears, MaxYears)
    /\ cache \in [RawFiles -> {0, 1}]
    /\ year_idx = 1
    /\ page = "draft"
    /\ retries = 0
    /\ requests = 0
    /\ status = 0
    /\ log = <<>>
    /\ NormIdle /\ PosIdle /\ MergeIdle /\ AggIdle /\ CleanIdle
    /\ CohortIdle /\ KnownIdle

\* The loop moves on: from the draft page of a year to its All-Pro page,
\* from the All-Pro page to the draft page of the next year.
Advance ==
    IF page = "draft"
    THEN page' = "allpro" /\ year_idx' = year_idx
    ELSE page' = "draft" /\ year_idx' = year_idx + 1

\* The file exists: the else branch prints that it is skipped.
SkipCached ==
    /\ pc = "check"
    /\ year_idx <= Len(years)
    /\ Cached(CurrentFile)
    /\ log' = Append(log, Event("skip", 0, 0))
    /\ Advance
    /\ pc' = "check"
    /\ UNCHANGED <<years, cache, retries, requests, status, normVars,
                   posVars, mergeVars, aggVars, cleanVars, cohortVars,
                   knownVars>>

\* The file does not exist: scrape_draft_year / scrape_allpro_year calls
\* _get(url) with the default retries.
StartFetch ==
    /\ pc = "check"
    /\ year_idx <= Len(years)
    /\ ~Cached(CurrentFile)
    /\ retries' = DEFAULT_RETRIES
    /\ requests' = 0
    /\ pc' = "get"
    /\ UNCHANGED <<years, cache, year_idx, page, status, log, normVars,
                   posVars, mergeVars, aggVars, cleanVars, cohortVars,
                   knownVars>>

\* requests.get returns a response with some status code.
Request ==
    /\ pc = "get"
    /\ \E code \in StatusCodes :
          /\ status' = code
          /\ log' = Append(log, Event("request", code, 0))
    /\ requests' = requests + 1
    /\ pc' = "responded"
    /\ UNCHANGED <<years, cache, year_idx, page, retries, normVars,
                   posVars, mergeVars, aggVars, cleanVars, cohortVars,
                   knownVars>>

\* requests.get raises (timeout after 30 s, connection error): the
\* exception leaves _get and scrape_all_years.
RequestRaises ==
    /\ pc = "get"
    /\ status' = 0
    /\ log' = Append(log, Event("request", 0, 0))
    /\ requests' = requests + 1
    /\ pc' = "raised"
    /\ UNCHANGED <<years, cache, year_idx, page, retries, normVars,
                   posVars, mergeVars, aggVars, cleanVars, cohortVars,
                   knownVars>>

\* A 429 with a retry left: sleep, then _get(url, retries - 1).
Retry ==
    /\ pc = "responded"
    /\ RetryAllowed(status, retries)
    /\ log' = Append(log, Event("sleep", 0, BACKOFF_SECONDS))
    /\ retries' = retries - 1
    /\ pc' = "get"
    /\ UNCHANGED <<years, cache, year_idx, page, requests, status,
                   normVars, posVars, mergeVars, aggVars, cleanVars,
                   cohortVars, knownVars>>

\* resp.raise_for_status(); return resp
RaiseForStatus ==
    /\ pc = "responded"
    /\ ~RetryAllowed(status, retries)
    /\ pc' = IF status >= 400 THEN "raised" ELSE "parse"
    /\ UNCHANGED <<years, cache, year_idx, page, retries, requests, status,
                   log, normVars, posVars, mergeVars, aggVars, cleanVars,
                   cohortVars, knownVars>>

\* The page has no table: ValueError leaves scrape_all_years.
TableMissing ==
    /\ pc = "parse"
    /\ pc' = "raised"
    /\ UNCHANGED <<years, cache, year_idx, page, retries, requests, status,
                   log, normVars, posVars, mergeVars, aggVars, cleanVars,
                   cohortVars, knownVars>>

\* The rows are parsed and df.to_csv writes the file.
WriteFile ==
    /\ pc = "parse"
    /\ cache' = [cache EXCEPT ![CurrentFile] = @ + 1]
    /\ log' = Append(log, Event("write", 0, 0))
    /\ pc' = "delay"
    /\ UNCHANGED <<years, year_idx, page, retries, requests, status,
                   normVars, posVars, mergeVars, aggVars, cleanVars,
                   cohortVars, knownVars>>

\* time.sleep(delay)
Delay ==
    /\ pc = "delay"
    /\ log' = Append(log, Event("delay", 0, 0))
    /\ Advance
    /\ pc' = "check"
    /\ UNCHANGED <<years, cache, retries, requests, status, normVars,
                   posVars, mergeVars, aggVars, cleanVars, cohortVars,
                   knownVars>>

\* The loop is over: "Scraping complete."
Complete ==
    /\ pc = "check"
    /\ year_idx > Len(years)
    /\ pc' = "complete"
    /\ UNCHANGED <<scrapeVars, normVars, posVars, mergeVars, aggVars,
                   cleanVars, cohortVars, knownVars>>

ScrapeNext ==
    \/ SkipCached
    \/ StartFetch
    \/ Request
    \/ RequestRaises
    \/ Retry
    \/ RaiseForStatus
    \/ TableMissing
    \/ WriteFile
    \/ Delay
    \/ Complete

SpecScrape == ScrapeInit /\ [][ScrapeNext]_vars

\* Every step of the scraper ends: requests.get has a timeout, the sleeps
\* are finite, and the run is one sequential thread.
SpecScrapeFair == SpecScrape /\ WF_vars(ScrapeNext)

\* The step appends a request to the log.
IsRequestStep ==
    Len(log') = Len(log) + 1 /\ log'[Len(log')].op = "request"

\* C12: one call of _get issues at most 2 requests; it sleeps only after a
\* 429, for 30 s, and only once per call; after the first 429 it retries,
\* after a second 429 or any other error status it raises, and a failed
\* request raises; every call ends, with a response returned or an error
\* raised.
C12_BoundedRetry ==
    /\ [](requests <= 2)
    /\ [](\A i \in 1..Len(log) :
             log[i].op = "sleep" =>
                /\ log[i].seconds = 30
                /\ i >= 2
                /\ log[i - 1].op = "request" /\ log[i - 1].status = 429
                /\ i >= 3 => log[i - 2].op # "sleep")
    /\ [][/\ pc = "responded" =>
               pc' = IF status = 429 /\ requests = 1 THEN "get"
                     ELSE IF status >= 400 THEN "raised"
                     ELSE "parse"
          /\ (IsRequestStep /\ log'[Len(log')].status = 0) => pc' = "raised"
          /\ (IsRequestStep /\ requests' = 2) =>
                log[Len(log)].op = "sleep"]_vars
    /\ (pc = "get") ~> (pc \in {"parse", "raised"})

\* A call that was answered 429, slept and then got a 200.
C12_Witness ==
    /\ pc = "parse"
    /\ requests = 2
    /\ Len(log) = 3
    /\ log[1].op = "request" /\ log[1].status = 429
    /\ log[2].op = "sleep"
    /\ log[3].op = "request" /\ log[3].status = 200

\* A fetch has returned a response and the delay after it has not begun.
DelayOwed ==
    \E i \in 1..Len(log) :
        /\ log[i].op = "request"
        /\ log[i].status >= 200 /\ log[i].status < 400
        /\ \A j \in (i + 1)..Len(log) : log[j].op # "delay"

\* C18: in scrape_all_years a page is fetched if and only if its file does
\* not exist when the loop reaches it; no request is made for a file that
\* exists and an existing file is never written again; a file is written
\* only right after the request for it succeeded; and no request is made
\* while the delay after a completed fetch is still to come.
C18_CachePolicy ==
    [][/\ (pc = "check" /\ year_idx <= Len(years)) =>
             /\ pc' \in {"get", "check"}
             /\ pc' = "get" <=> cache[CurrentFile] = 0
             /\ pc' = "check" =>
                   log' = Append(log, Event("skip", 0, 0))
       /\ pc' = "get" => pc \in {"check", "responded"}
       /\ IsRequestStep =>
             /\ pc = "get"
             /\ cache[CurrentFile] = 0
             /\ ~DelayOwed
       /\ \A f \in RawFiles : cache[f] > 0 => cache'[f] = cache[f]
       /\ cache' # cache =>
             /\ \A f \in RawFiles \ {CurrentFile} : cache'[f] = cache[f]
             /\ log[Len(log)].op = "request"
             /\ log[Len(log)].page = page
             /\ log[Len(log)].year = years[year_idx]
             /\ log[Len(log)].status = 200]_vars

\* A complete run over two years that found one file cached and fetched
\* the other three.
C18_Witness ==
    /\ pc = "complete"
    /\ years = <<2020, 2021>>
    /\ \A f \in RawFiles : cache[f] = 1
    /\ Cardinality({i \in 1..Len(log) : log[i].op = "skip"}) = 1
    /\ Cardinality({i \in 1..Len(log) : log[i].op = "write"}) = 3
    /\ Cardinality({i \in 1..Len(log) : log[i].op = "delay"}) = 3
    /\ log[1].op = "skip"

====
